---- MODULE Spec2Model ----
(***************************************************************************)
(* Model of backend/backend_app.py: a Flask blog API over the in-memory    *)
(* list POSTS.  Text is a sequence of one-character strings, so that       *)
(* str.lower(), the `in` substring test and the ordering of sorted() are   *)
(* computed rather than assumed.  A JSON body and a query string are       *)
(* functions from the keys that are present to their values, so that       *)
(* dict.get(key, default) distinguishes an absent key from an empty value. *)
(* Bodies carry string values only (no JSON null, numbers or lists).       *)
(***************************************************************************)
EXTENDS Integers, Sequences, FiniteSets, TLC

\* Largest id a create may assign in the model (ids are unbounded in the code).
MaxId == 2

----------------------------------------------------------------------------
\* Characters and text

UpperChars == <<"A","B","C","D","E","F","G","H","I","J","K","L","M",
                "N","O","P","Q","R","S","T","U","V","W","X","Y","Z">>

LowerChars == <<"a","b","c","d","e","f","g","h","i","j","k","l","m",
                "n","o","p","q","r","s","t","u","v","w","x","y","z">>

IsUpper(c) == \E i \in 1..Len(UpperChars) : UpperChars[i] = c

IsLower(c) == \E i \in 1..Len(LowerChars) : LowerChars[i] = c

UpperIndex(c) == CHOOSE i \in 1..Len(UpperChars) : UpperChars[i] = c

LowerIndex(c) == CHOOSE i \in 1..Len(LowerChars) : LowerChars[i] = c

\* Code point of a character (ASCII): the order sorted() compares by.
Code(c) ==
    IF IsUpper(c) THEN 64 + UpperIndex(c)
    ELSE IF IsLower(c) THEN 96 + LowerIndex(c)
    ELSE IF c = " " THEN 32
    ELSE 46

LowerChar(c) == IF IsUpper(c) THEN LowerChars[UpperIndex(c)] ELSE c

\* str.lower()
Lower(s) == [i \in 1..Len(s) |-> LowerChar(s[i])]

Min(a, b) == IF a < b THEN a ELSE b

\* s < t for Python strings: lexicographic by code point.
StrLess(s, t) ==
    \E k \in 1..(Min(Len(s), Len(t)) + 1) :
        /\ \A j \in 1..(k - 1) : s[j] = t[j]
        /\ \/ k > Len(s) /\ k <= Len(t)
           \/ k <= Len(s) /\ k <= Len(t) /\ Code(s[k]) < Code(t[k])

\* q in s for Python strings.
Contains(q, s) ==
    \E i \in 0..(Len(s) - Len(q)) : SubSeq(s, i + 1, i + Len(q)) = q

\* Truthiness of a str.
Truthy(s) == s /= <<>>

----------------------------------------------------------------------------
\* Literals of the source

TitleKey == <<"t","i","t","l","e">>

ContentKey == <<"c","o","n","t","e","n","t">>

AscWord == <<"a","s","c">>

DescWord == <<"d","e","s","c">>

FirstTitle == <<"F","i","r","s","t"," ","p","o","s","t">>

FirstContent == <<"T","h","i","s"," ","i","s"," ","t","h","e"," ",
                  "f","i","r","s","t"," ","p","o","s","t",".">>

SecondTitle == <<"S","e","c","o","n","d"," ","p","o","s","t">>

SecondContent == <<"T","h","i","s"," ","i","s"," ","t","h","e"," ",
                   "s","e","c","o","n","d"," ","p","o","s","t",".">>

SeedPosts ==
    << [id |-> 1, title |-> FirstTitle, content |-> FirstContent],
       [id |-> 2, title |-> SecondTitle, content |-> SecondContent] >>

----------------------------------------------------------------------------
\* Requests

\* dict.get(key, default), request.args.get(key, default)
Get(d, k, default) == IF k \in DOMAIN d THEN d[k] ELSE default

\* The empty dict ({} or an empty query string).
EmptyDict == <<>>

\* Field values a JSON body may carry.
BodyTexts == { <<>>, <<"a">> }

BodyKeys == {"title", "content", "extra"}

\* JSON objects: any subset of the keys, "extra" standing for any other key
\* (enumerated only where it decides something: beside no other key).
Bodies ==
    { d \in UNION { [S -> BodyTexts] : S \in SUBSET BodyKeys } :
        "extra" \in DOMAIN d => DOMAIN d = {"extra"} /\ d["extra"] = <<"a">> }

\* Values of the sort query parameter: empty, valid in either case, invalid.
SortArgs == { <<>>, TitleKey, <<"C","o","n","t","e","n","t">>, <<"i","d">> }

\* Values of the direction query parameter.
DirectionArgs == { AscWord, <<"D","E","S","C">>, <<"u","p">> }

\* Query strings of a list request: sort and direction, each present or not.
ListArgs ==
    UNION { { a \in [S -> SortArgs \cup DirectionArgs] :
                /\ "sort" \in S => a["sort"] \in SortArgs
                /\ "direction" \in S => a["direction"] \in DirectionArgs }
            : S \in SUBSET {"sort", "direction"} }

\* Values of the title and content query parameters of a search.
QueryTexts == { <<>>, <<"A">>, <<"p","o","s","t">> }

SearchArgs ==
    UNION { [S -> QueryTexts] : S \in SUBSET {"title", "content"} }

Ids == 1..MaxId

----------------------------------------------------------------------------
\* State

VARIABLES
    POSTS,         \* the module-level list of posts
    last,          \* the last request and its response
    deleted,       \* ids whose delete has succeeded
    lastAssigned,  \* id given by the latest successful create, 0 before any
    threads,       \* the request each server thread is handling, and its locals
    listGen        \* identity of the list the global POSTS is bound to, for
                   \* threads that hold a reference to it: the count of
                   \* rebinds by concurrent deletes

vars == <<POSTS, last, deleted, lastAssigned, threads, listGen>>

\* Server threads that handle requests at the same time.
Procs == {1, 2}

Thread(op, pc, id, ref, copy, status) ==
    [op |-> op, pc |-> pc, id |-> id, ref |-> ref, copy |-> copy,
     status |-> status]

IdleThread == Thread("idle", "idle", 0, 0, <<>>, 0)

Response(op, id, hasBody, data, status, posts, error) ==
    [op |-> op, id |-> id, hasBody |-> hasBody, data |-> data,
     status |-> status, posts |-> posts, error |-> error]

IdsOf(posts) == { posts[i].id : i \in 1..Len(posts) }

Init ==
    /\ POSTS = SeedPosts
    /\ last = Response("start", 0, FALSE, EmptyDict, 200, <<>>, "")
    /\ deleted = {}
    /\ lastAssigned = 0
    /\ threads = [p \in Procs |-> IdleThread]
    /\ listGen = 0

----------------------------------------------------------------------------
\* get_posts

\* key=lambda post: post[sort_field].lower()
SortKey(post, sort_field) ==
    Lower(IF sort_field = TitleKey THEN post.title ELSE post.content)

Reverse(seq) == [i \in 1..Len(seq) |-> seq[Len(seq) + 1 - i]]

\* Mutant of InsertStable: p goes in front of the elements with an equal key.
InsertBeforeEqual(seq, p, sort_field) ==
    LET k == SortKey(p, sort_field)
        n == Cardinality({ i \in 1..Len(seq) :
                             StrLess(SortKey(seq[i], sort_field), k) })
    IN  SubSeq(seq, 1, n) \o <<p>> \o SubSeq(seq, n + 1, Len(seq))

\* Insert p behind every element whose key is not greater than p's.
InsertStable(seq, p, sort_field) ==
    LET k == SortKey(p, sort_field)
        n == Cardinality({ i \in 1..Len(seq) :
                             ~ StrLess(k, SortKey(seq[i], sort_field)) })
    IN  SubSeq(seq, 1, n) \o <<p>> \o SubSeq(seq, n + 1, Len(seq))

RECURSIVE StableSort(_, _)
\* The stable ascending sort of list.sort().
StableSort(seq, sort_field) ==
    IF seq = <<>> THEN <<>>
    ELSE InsertStable(StableSort(SubSeq(seq, 1, Len(seq) - 1), sort_field),
                      seq[Len(seq)], sort_field)

\* Mutant of Sorted: descending order as the reversed ascending result.
SortedAscThenReverse(seq, sort_field, reverse) ==
    IF reverse THEN Reverse(StableSort(seq, sort_field))
    ELSE StableSort(seq, sort_field)

\* sorted(seq, key=..., reverse=reverse): with reverse the list is reversed,
\* sorted stably and reversed again, which keeps equal keys in input order.
Sorted(seq, sort_field, reverse) ==
    IF reverse THEN Reverse(StableSort(Reverse(seq), sort_field))
    ELSE StableSort(seq, sort_field)

SortFieldOf(args) == Lower(Get(args, "sort", <<>>))

DirectionOf(args) == Lower(Get(args, "direction", AscWord))

ValidListArgs(args) ==
    /\ Truthy(SortFieldOf(args))
    /\ SortFieldOf(args) \in {TitleKey, ContentKey}
    /\ DirectionOf(args) \in {AscWord, DescWord}

\* The response of get_posts on a store.
GetPostsResponse(posts, args) ==
    LET sort_field == SortFieldOf(args)
        direction == DirectionOf(args)
    IN  IF ~ Truthy(sort_field)
        THEN Response("list", 0, FALSE, args, 200, posts, "")
        ELSE IF sort_field \notin {TitleKey, ContentKey}
        THEN Response("list", 0, FALSE, args, 400, <<>>, "Invalid sort field")
        ELSE IF direction \notin {AscWord, DescWord}
        THEN Response("list", 0, FALSE, args, 400, <<>>, "Invalid direction")
        ELSE Response("list", 0, FALSE, args, 200,
                      Sorted(posts, sort_field, direction = DescWord), "")

\* Mutant of GetPostsResult: POSTS.sort(...) orders the stored list itself.
GetPostsSortsInPlace(posts, args) ==
    [posts |-> IF ValidListArgs(args)
               THEN Sorted(posts, SortFieldOf(args), DirectionOf(args) = DescWord)
               ELSE posts,
     resp |-> GetPostsResponse(posts, args)]

\* The body of get_posts: the list afterwards (sorted() builds a new list)
\* and the response.
GetPostsResult(posts, args) ==
    [posts |-> posts, resp |-> GetPostsResponse(posts, args)]

get_posts(args) ==
    LET r == GetPostsResult(POSTS, args)
    IN  /\ POSTS' = r.posts
        /\ last' = r.resp
        /\ UNCHANGED <<deleted, lastAssigned, threads, listGen>>

----------------------------------------------------------------------------
\* search_posts

\* Mutant of Matches: an empty query matches every post.
MatchesEmptyMatchesAll(post, title_query, content_query) ==
    \/ Contains(title_query, Lower(post.title))
    \/ Contains(content_query, Lower(post.content))

\* title_match or content_match
Matches(post, title_query, content_query) ==
    \/ Truthy(title_query) /\ Contains(title_query, Lower(post.title))
    \/ Truthy(content_query) /\ Contains(content_query, Lower(post.content))

RECURSIVE SearchResults(_, _, _)
\* The loop of search_posts: the matching posts, in store order.
SearchResults(posts, title_query, content_query) ==
    IF posts = <<>> THEN <<>>
    ELSE LET rest == SearchResults(SubSeq(posts, 1, Len(posts) - 1),
                                   title_query, content_query)
             post == posts[Len(posts)]
         IN  IF Matches(post, title_query, content_query)
             THEN Append(rest, post) ELSE rest

SearchResponse(posts, args) ==
    Response("search", 0, FALSE, args, 200,
             SearchResults(posts, Lower(Get(args, "title", <<>>)),
                           Lower(Get(args, "content", <<>>))), "")

search_posts(args) ==
    /\ last' = SearchResponse(POSTS, args)
    /\ UNCHANGED <<POSTS, deleted, lastAssigned, threads, listGen>>

----------------------------------------------------------------------------
\* add_post

\* `not data`: no JSON body, or the empty object.
NoData(hasBody, data) == ~ hasBody \/ data = EmptyDict

\* data.get(key): None, which is falsy, when the key is absent.
FieldMissing(data, k) == k \notin DOMAIN data \/ ~ Truthy(data[k])

MissingFields(data) ==
    IF FieldMissing(data, "title") /\ FieldMissing(data, "content")
    THEN "title, content"
    ELSE IF FieldMissing(data, "title") THEN "title"
    ELSE IF FieldMissing(data, "content") THEN "content"
    ELSE ""

Max(S) == CHOOSE x \in S : \A y \in S : y <= x

\* Mutant of NewId: one more than the number of posts.
NewIdByLength(posts) == Len(posts) + 1

\* max([post["id"] for post in POSTS], default=0) + 1
NewId(posts) == IF posts = <<>> THEN 1 ELSE Max(IdsOf(posts)) + 1

\* Mutant of AddPostResult: the post is appended before the fields are checked.
AddPostAppendsFirst(posts, hasBody, data) ==
    LET new_post == [id |-> NewId(posts), title |-> Get(data, "title", <<>>),
                     content |-> Get(data, "content", <<>>)]
    IN  IF NoData(hasBody, data)
        THEN [posts |-> posts,
              resp |-> Response("create", 0, hasBody, data, 400, <<>>,
                                "Request must be JSON")]
        ELSE IF MissingFields(data) /= ""
        THEN [posts |-> Append(posts, new_post),
              resp |-> Response("create", 0, hasBody, data, 400, <<>>,
                                MissingFields(data))]
        ELSE [posts |-> Append(posts, new_post),
              resp |-> Response("create", new_post.id, hasBody, data, 201,
                                <<new_post>>, "")]

\* Mutant of AddPostResult: the new post is put at the head of the list.
AddPostPrepends(posts, hasBody, data) ==
    IF NoData(hasBody, data)
    THEN [posts |-> posts,
          resp |-> Response("create", 0, hasBody, data, 400, <<>>,
                            "Request must be JSON")]
    ELSE IF MissingFields(data) /= ""
    THEN [posts |-> posts,
          resp |-> Response("create", 0, hasBody, data, 400, <<>>,
                            MissingFields(data))]
    ELSE LET new_post == [id |-> NewId(posts), title |-> data["title"],
                          content |-> data["content"]]
         IN  [posts |-> <<new_post>> \o posts,
              resp |-> Response("create", new_post.id, hasBody, data, 201,
                                <<new_post>>, "")]

\* The body of add_post: the list afterwards and the response.
AddPostResult(posts, hasBody, data) ==
    IF NoData(hasBody, data)
    THEN [posts |-> posts,
          resp |-> Response("create", 0, hasBody, data, 400, <<>>,
                            "Request must be JSON")]
    ELSE IF MissingFields(data) /= ""
    THEN [posts |-> posts,
          resp |-> Response("create", 0, hasBody, data, 400, <<>>,
                            MissingFields(data))]
    ELSE LET new_post == [id |-> NewId(posts), title |-> data["title"],
                          content |-> data["content"]]
         IN  [posts |-> Append(posts, new_post),
              resp |-> Response("create", new_post.id, hasBody, data, 201,
                                <<new_post>>, "")]

add_post(hasBody, data) ==
    LET r == AddPostResult(POSTS, hasBody, data)
    IN  /\ r.resp.status = 201 => r.resp.id <= MaxId
        /\ POSTS' = r.posts
        /\ last' = r.resp
        /\ lastAssigned' = IF r.resp.status = 201 THEN r.resp.id ELSE lastAssigned
        /\ UNCHANGED <<deleted, threads, listGen>>

----------------------------------------------------------------------------
\* delete_post

HasPost(posts, post_id) == \E i \in 1..Len(posts) : posts[i].id = post_id

\* next((post for post in POSTS if post["id"] == post_id), None)
FirstIndex(posts, post_id) ==
    CHOOSE i \in 1..Len(posts) :
        /\ posts[i].id = post_id
        /\ \A j \in 1..(i - 1) : posts[j].id /= post_id

\* Mutant of Without: every post from the deleted one on is dropped.
WithoutFrom(posts, post_id) ==
    SubSeq(posts, 1, FirstIndex(posts, post_id) - 1)

RECURSIVE Without(_, _)
\* [post for post in POSTS if post["id"] != post_id]
Without(posts, post_id) ==
    IF posts = <<>> THEN <<>>
    ELSE LET rest == Without(SubSeq(posts, 1, Len(posts) - 1), post_id)
             post == posts[Len(posts)]
         IN  IF post.id /= post_id THEN Append(rest, post) ELSE rest

\* The body of delete_post: the list afterwards and the response.
DeletePostResult(posts, post_id) ==
    IF ~ HasPost(posts, post_id)
    THEN [posts |-> posts,
          resp |-> Response("delete", post_id, FALSE, EmptyDict, 404, <<>>,
                            "not found")]
    ELSE [posts |-> Without(posts, post_id),
          resp |-> Response("delete", post_id, FALSE, EmptyDict, 200, <<>>, "")]

delete_post(post_id) ==
    LET r == DeletePostResult(POSTS, post_id)
    IN  /\ POSTS' = r.posts
        /\ last' = r.resp
        /\ deleted' = IF r.resp.status = 200 THEN deleted \cup {post_id}
                      ELSE deleted
        /\ UNCHANGED <<lastAssigned, threads, listGen>>

----------------------------------------------------------------------------
\* update_post

\* Mutant of Updated: data.get(key) without the default, so that a field the
\* payload leaves out is cleared.
UpdatedClearsAbsent(post, data) ==
    [post EXCEPT !.title = Get(data, "title", <<>>),
                 !.content = Get(data, "content", <<>>)]

\* title = data.get("title", post["title"]); likewise content; both stored.
Updated(post, data) ==
    [post EXCEPT !.title = Get(data, "title", post.title),
                 !.content = Get(data, "content", post.content)]

\* The body of update_post: the list afterwards (the post is changed in
\* place) and the response.
UpdatePostResult(posts, post_id, hasBody, data) ==
    IF NoData(hasBody, data)
    THEN [posts |-> posts,
          resp |-> Response("update", post_id, hasBody, data, 400, <<>>,
                            "Request must be JSON")]
    ELSE IF ~ HasPost(posts, post_id)
    THEN [posts |-> posts,
          resp |-> Response("update", post_id, hasBody, data, 404, <<>>,
                            "not found")]
    ELSE LET i == FirstIndex(posts, post_id)
             post == Updated(posts[i], data)
         IN  [posts |-> [posts EXCEPT ![i] = post],
              resp |-> Response("update", post_id, hasBody, data, 200,
                                <<post>>, "")]

update_post(post_id, hasBody, data) ==
    LET r == UpdatePostResult(POSTS, post_id, hasBody, data)
    IN  /\ POSTS' = r.posts
        /\ last' = r.resp
        /\ UNCHANGED <<deleted, lastAssigned, threads, listGen>>

----------------------------------------------------------------------------
\* Requests are handled one at a time.

ListStep == \E args \in ListArgs : get_posts(args)

SearchStep == \E args \in SearchArgs : search_posts(args)

CreateStep ==
    \E hasBody \in BOOLEAN : \E data \in Bodies :
        (hasBody \/ data = EmptyDict) /\ add_post(hasBody, data)

DeleteStep == \E post_id \in Ids : delete_post(post_id)

UpdateStep ==
    \E post_id \in Ids : \E hasBody \in BOOLEAN : \E data \in Bodies :
        (hasBody \/ data = EmptyDict) /\ update_post(post_id, hasBody, data)

Next == ListStep \/ SearchStep \/ CreateStep \/ DeleteStep \/ UpdateStep

Spec == Init /\ [][Next]_vars

----------------------------------------------------------------------------
\* Creates with a wider choice of field values, whitespace-only text
\* included, between deletes that make room for them.

CreateTexts == { <<>>, <<"a">>, <<" ">> }

CreateBodies ==
    { d \in UNION { [S -> CreateTexts] : S \in SUBSET BodyKeys } :
        "extra" \in DOMAIN d => DOMAIN d = {"extra"} /\ d["extra"] = <<"a">> }

CreateWideStep ==
    \E hasBody \in BOOLEAN : \E data \in CreateBodies :
        (hasBody \/ data = EmptyDict) /\ add_post(hasBody, data)

NextCreate == CreateWideStep \/ DeleteStep

SpecCreate == Init /\ [][NextCreate]_vars

----------------------------------------------------------------------------
\* Requests handled by concurrent threads with no lock: each thread runs
\* one add_post or one delete_post, and the other thread may run between
\* any two of its steps.  The list comprehensions are taken as one step.

\* The post a concurrent create sends: both fields present and non-empty.
ThreadPost(new_id) == [id |-> new_id, title |-> <<"a">>, content |-> <<"a">>]

\* Mutant of Appended: the id is computed again as the post is appended.
AppendedWithFreshId(posts, new_post) ==
    Append(posts, [new_post EXCEPT !.id = NewId(posts)])

\* POSTS.append(new_post)
Appended(posts, new_post) == Append(posts, new_post)

\* add_post, lines 74-91: the body is valid, the thread reaches line 93.
CreateBegin(p) ==
    /\ threads[p].pc = "idle"
    /\ threads' = [threads EXCEPT ![p] = Thread("create", "read", 0, 0, <<>>, 0)]
    /\ UNCHANGED <<POSTS, last, deleted, lastAssigned, listGen>>

\* Line 93: new_id from the posts stored now.
CreateReadMax(p) ==
    /\ threads[p].op = "create" /\ threads[p].pc = "read"
    /\ threads' = [threads EXCEPT ![p].id = NewId(POSTS), ![p].pc = "load"]
    /\ UNCHANGED <<POSTS, last, deleted, lastAssigned, listGen>>

\* Line 95, the name POSTS is evaluated: the thread holds the list that
\* is global now.
CreateLoadList(p) ==
    /\ threads[p].op = "create" /\ threads[p].pc = "load"
    /\ threads' = [threads EXCEPT ![p].ref = listGen, ![p].pc = "append"]
    /\ UNCHANGED <<POSTS, last, deleted, lastAssigned, listGen>>

\* Line 95, the call: the post is appended to the list the thread holds,
\* which a delete may have replaced as the global meanwhile; lines 97: 201.
CreateAppend(p) ==
    /\ threads[p].op = "create" /\ threads[p].pc = "append"
    /\ POSTS' = IF threads[p].ref = listGen
                THEN Appended(POSTS, ThreadPost(threads[p].id))
                ELSE POSTS
    /\ threads' = [threads EXCEPT ![p].status = 201, ![p].pc = "done"]
    /\ UNCHANGED <<last, deleted, lastAssigned, listGen>>

\* delete_post is entered with a post id.
DeleteBegin(p, post_id) ==
    /\ threads[p].pc = "idle"
    /\ threads' = [threads EXCEPT
                     ![p] = Thread("delete", "find", post_id, 0, <<>>, 0)]
    /\ UNCHANGED <<POSTS, last, deleted, lastAssigned, listGen>>

\* Lines 113-116: 404 unless a post with the id is stored now.
DeleteFind(p) ==
    /\ threads[p].op = "delete" /\ threads[p].pc = "find"
    /\ threads' = IF HasPost(POSTS, threads[p].id)
                  THEN [threads EXCEPT ![p].pc = "filter"]
                  ELSE [threads EXCEPT ![p].status = 404, ![p].pc = "done"]
    /\ UNCHANGED <<POSTS, last, deleted, lastAssigned, listGen>>

\* Line 118, right-hand side: a new list of the posts stored now, without
\* the one to delete.
DeleteFilter(p) ==
    /\ threads[p].op = "delete" /\ threads[p].pc = "filter"
    /\ threads' = [threads EXCEPT ![p].copy = Without(POSTS, threads[p].id),
                                  ![p].pc = "rebind"]
    /\ UNCHANGED <<POSTS, last, deleted, lastAssigned, listGen>>

\* Line 118, the assignment: the global is bound to the new list; line 120.
DeleteRebind(p) ==
    /\ threads[p].op = "delete" /\ threads[p].pc = "rebind"
    /\ POSTS' = threads[p].copy
    /\ listGen' = listGen + 1
    /\ deleted' = deleted \cup {threads[p].id}
    /\ threads' = [threads EXCEPT ![p].status = 200, ![p].pc = "done"]
    /\ UNCHANGED <<last, lastAssigned>>

NextConc ==
    \E p \in Procs :
        \/ CreateBegin(p)
        \/ CreateReadMax(p)
        \/ CreateLoadList(p)
        \/ CreateAppend(p)
        \/ \E post_id \in Ids : DeleteBegin(p, post_id)
        \/ DeleteFind(p)
        \/ DeleteFilter(p)
        \/ DeleteRebind(p)

SpecConc == Init /\ [][NextConc]_vars

----------------------------------------------------------------------------
\* Vocabulary of the properties

Succeeded(op) == last.op = op /\ last.status \in {200, 201}

PostById(posts, post_id) == posts[FirstIndex(posts, post_id)]

\* Position of a post of the response in the store.
StorePos(post) == FirstIndex(POSTS, post.id)

SortedList(direction) ==
    /\ Succeeded("list")
    /\ ValidListArgs(last.data)
    /\ DirectionOf(last.data) = direction

\* The lower-cased sort key of a listed post, read from the post itself.
KeyOf(post) ==
    IF SortFieldOf(last.data) = TitleKey THEN Lower(post.title)
    ELSE Lower(post.content)

\* q occurs in s at some offset, character by character.
OccursIn(q, s) ==
    \E off \in 0..(Len(s) - Len(q)) : \A k \in 1..Len(q) : s[off + k] = q[k]

----------------------------------------------------------------------------
\* C1: after any sequence of create, update, delete, list and search
\* requests from the two seed posts, the ids in the store are pairwise
\* distinct.
C1_DistinctIds ==
    \A i, j \in 1..Len(POSTS) : i /= j => POSTS[i].id /= POSTS[j].id

\* A post was deleted and a later create has filled the store again.
C1_Witness ==
    /\ Succeeded("create")
    /\ deleted /= {}
    /\ Len(POSTS) >= 2

\* C2: once delete(id) has succeeded, no later create is assigned that id
\* and no later list or search result holds a post with that id.
C2_NoIdReuse ==
    /\ Succeeded("create") => last.id \notin deleted
    /\ (Succeeded("list") \/ Succeeded("search")) =>
           IdsOf(last.posts) \cap deleted = {}

\* C3: every post in the store has a non-empty title and a non-empty
\* content.
C3_NonEmptyFields ==
    \A i \in 1..Len(POSTS) : Truthy(POSTS[i].title) /\ Truthy(POSTS[i].content)

\* C4: an update whose payload holds a field with an empty value keeps the
\* stored value of that field.
C4_EmptyFieldKeepsValue ==
    [][ (last'.op = "update" /\ last'.status = 200) =>
          \A k \in {"title", "content"} :
             (k \in DOMAIN last'.data /\ ~ Truthy(last'.data[k])) =>
                 PostById(POSTS', last'.id)[k] = PostById(POSTS, last'.id)[k]
      ]_vars

\* C5 as stated: a descending list is the exact reverse of the ascending
\* list of the same store and field, tied posts included.
C5_DescIsReversedAsc ==
    SortedList(DescWord) =>
        last.posts = Reverse(StableSort(POSTS, SortFieldOf(last.data)))

\* C5 (amended): a descending list holds every stored post once, in
\* non-increasing order of the lower-cased key, posts with equal keys in
\* store order; it is the reverse of the ascending list whenever the keys
\* of the stored posts are pairwise distinct.
C5_DescStable ==
    SortedList(DescWord) =>
        /\ Len(last.posts) = Len(POSTS)
        /\ \A i \in 1..Len(POSTS) : \E j \in 1..Len(last.posts) :
               last.posts[j] = POSTS[i]
        /\ \A i, j \in 1..Len(last.posts) :
               i < j =>
                 \/ StrLess(KeyOf(last.posts[j]), KeyOf(last.posts[i]))
                 \/ /\ KeyOf(last.posts[j]) = KeyOf(last.posts[i])
                    /\ StorePos(last.posts[i]) < StorePos(last.posts[j])
        /\ (\A i, j \in 1..Len(POSTS) :
                i /= j => KeyOf(POSTS[i]) /= KeyOf(POSTS[j]))
             => last.posts = Reverse(StableSort(POSTS, SortFieldOf(last.data)))

\* A descending list of a store in which two posts tie on the sort key.
C5_Witness ==
    /\ SortedList(DescWord)
    /\ \E i, j \in 1..Len(POSTS) :
           i /= j /\ KeyOf(POSTS[i]) = KeyOf(POSTS[j])

C7_AssignedIdsNonDecreasing ==
    [][ (last'.op = "create" /\ last'.status = 201) =>
          lastAssigned <= lastAssigned' ]_vars

\* C8: an update of an existing id whose payload holds neither title nor
\* content succeeds, returns the post as it was and leaves the store
\* unchanged.
C8_UpdateWithoutFields ==
    [][ ( /\ last'.op = "update"
          /\ last'.hasBody
          /\ "title" \notin DOMAIN last'.data
          /\ "content" \notin DOMAIN last'.data
          /\ HasPost(POSTS, last'.id) ) =>
            /\ last'.status = 200
            /\ last'.posts = << PostById(POSTS, last'.id) >>
            /\ POSTS' = POSTS
      ]_vars

\* C9: a request answered with an error (400 or 404) leaves the store as
\* it was.
C9_ErrorLeavesStore ==
    [][ last'.status \in {400, 404} => POSTS' = POSTS ]_vars

\* A create rejected for a missing field, against a store holding posts.
C9_Witness ==
    /\ last.op = "create"
    /\ last.status = 400
    /\ last.hasBody
    /\ last.data /= EmptyDict
    /\ POSTS /= <<>>

\* C10: a search returns, in store order, exactly the posts whose
\* lower-cased title holds the non-empty lower-cased title query or whose
\* lower-cased content holds the non-empty lower-cased content query; with
\* both queries empty or absent the result is empty.
C10_SearchResult ==
    Succeeded("search") =>
        LET tq == Lower(Get(last.data, "title", <<>>))
            cq == Lower(Get(last.data, "content", <<>>))
            hit(post) ==
                \/ tq /= <<>> /\ OccursIn(tq, Lower(post.title))
                \/ cq /= <<>> /\ OccursIn(cq, Lower(post.content))
            hits == { i \in 1..Len(POSTS) : hit(POSTS[i]) }
        IN  /\ Len(last.posts) = Cardinality(hits)
            /\ \A i \in hits : \E j \in 1..Len(last.posts) :
                   last.posts[j] = POSTS[i]
            /\ \A i, j \in 1..Len(last.posts) :
                   i < j => StorePos(last.posts[i]) < StorePos(last.posts[j])
            /\ (tq = <<>> /\ cq = <<>>) => last.posts = <<>>

\* A search that selects some of the stored posts and leaves others out.
C10_Witness ==
    /\ Succeeded("search")
    /\ 0 < Len(last.posts)
    /\ Len(last.posts) < Len(POSTS)

C12_UpdateOneField ==
    [][ (last'.op = "update" /\ last'.status = 200) =>
          LET data == last'.data
              i == FirstIndex(POSTS, last'.id)
          IN  /\ (DOMAIN data = {"title"} /\ data["title"] /= <<>>) =>
                    /\ POSTS' = [POSTS EXCEPT ![i].title = data["title"]]
                    /\ POSTS'[i].content = POSTS[i].content
                    /\ last'.posts = << POSTS'[i] >>
              /\ (DOMAIN data = {"content"} /\ data["content"] /= <<>>) =>
                    /\ POSTS' = [POSTS EXCEPT ![i].content = data["content"]]
                    /\ POSTS'[i].title = POSTS[i].title
                    /\ last'.posts = << POSTS'[i] >>
      ]_vars

\* An update of the title alone, of the second of two posts, whose content
\* is still the seed text.
C12_Witness ==
    /\ Succeeded("update")
    /\ DOMAIN last.data = {"title"}
    /\ last.data["title"] /= <<>>
    /\ Len(POSTS) = 2
    /\ last.id = 2
    /\ POSTS[2].title = last.data["title"]
    /\ POSTS[2].content = SecondContent

\* C13: an update of an id that no stored post has fails with the
\* not-found error (404), whatever the payload, an empty or missing one
\* included.
C13_UpdateUnknownIdNotFound ==
    (last.op = "update" /\ ~ HasPost(POSTS, last.id)) =>
        last.status = 404 /\ last.error = "not found"

\* C15: a list whose sort field is given and is neither title nor content
\* (in any case) is rejected as an invalid sort field; a list whose
\* direction is given and is neither asc nor desc (in any case) is rejected,
\* as an invalid direction unless the sort field is itself invalid; a
\* direction left out counts as asc.
C15_ListValidation ==
    last.op = "list" =>
        LET args == last.data
            sortGiven == "sort" \in DOMAIN args /\ args["sort"] /= <<>>
            sortBad == sortGiven /\ Lower(args["sort"]) \notin {TitleKey, ContentKey}
            dirBad == /\ "direction" \in DOMAIN args
                      /\ Lower(args["direction"]) \notin {AscWord, DescWord}
        IN  /\ sortBad => last.status = 400 /\ last.error = "Invalid sort field"
            /\ dirBad => /\ last.status = 400
                         /\ ~ sortBad => last.error = "Invalid direction"
            /\ (sortGiven /\ ~ sortBad /\ "direction" \notin DOMAIN args) =>
                  /\ last.status = 200
                  /\ last.posts = StableSort(POSTS, Lower(args["sort"]))

\* C16: an ascending list by a valid field holds every stored post once,
\* in non-decreasing order of the lower-cased field, posts with equal
\* lower-cased keys in store order.
C16_AscStable ==
    SortedList(AscWord) =>
        /\ Len(last.posts) = Len(POSTS)
        /\ \A i \in 1..Len(POSTS) : \E j \in 1..Len(last.posts) :
               last.posts[j] = POSTS[i]
        /\ \A i, j \in 1..Len(last.posts) :
               i < j =>
                 \/ StrLess(KeyOf(last.posts[i]), KeyOf(last.posts[j]))
                 \/ /\ KeyOf(last.posts[i]) = KeyOf(last.posts[j])
                    /\ StorePos(last.posts[i]) < StorePos(last.posts[j])

\* An ascending list of a store in which two posts tie on the lower-cased
\* key, and one whose order differs from the store's.
C16_Witness ==
    /\ SortedList(AscWord)
    /\ Len(POSTS) = 2
    /\ \/ KeyOf(POSTS[1]) = KeyOf(POSTS[2])
       \/ last.posts = << POSTS[2], POSTS[1] >>

C14_CreateValidation ==
    (last.op = "create" /\ last.hasBody) =>
        LET data == last.data
            noTitle == "title" \notin DOMAIN data \/ data["title"] = <<>>
            noContent == "content" \notin DOMAIN data \/ data["content"] = <<>>
        IN  /\ (noTitle /\ noContent) =>
                  last.status = 400 /\ last.error = "title, content"
            /\ (noTitle /\ ~ noContent) =>
                  last.status = 400 /\ last.error = "title"
            /\ (~ noTitle /\ noContent) =>
                  last.status = 400 /\ last.error = "content"
            /\ (~ noTitle /\ ~ noContent) => last.status = 201

\* C18: when two creates run at the same time and both are done, the
\* store holds two posts with equal ids exactly when both computed the same
\* new id, each reading the maximum before the other appended; such an
\* interleaving exists (C18_Witness).
C18_SameIdGivesDuplicate ==
    (\A p \in Procs : threads[p].op = "create" /\ threads[p].pc = "done") =>
        ( (\E p, q \in Procs : p /= q /\ threads[p].id = threads[q].id)
          <=> (\E i, j \in 1..Len(POSTS) : i /= j /\ POSTS[i].id = POSTS[j].id) )

\* Both creates have answered 201 with the same id and the store holds
\* two posts with that id.
C18_Witness ==
    /\ \A p \in Procs : /\ threads[p].op = "create"
                        /\ threads[p].pc = "done"
                        /\ threads[p].status = 201
    /\ \E p, q \in Procs : p /= q /\ threads[p].id = threads[q].id
    /\ \E i, j \in 1..Len(POSTS) : i /= j /\ POSTS[i].id = POSTS[j].id

\* C19: a post whose create has succeeded is in the store as long as no
\* delete of its id has succeeded, also when a delete of another post runs
\* at the same time.
C19_CreatedPostStays ==
    \A p \in Procs :
        ( /\ threads[p].op = "create"
          /\ threads[p].pc = "done"
          /\ threads[p].status = 201
          /\ threads[p].id \notin deleted )
        => HasPost(POSTS, threads[p].id)

====
